---------------------------- MODULE Spec2Model ----------------------------
(***************************************************************************)
(* A model of the CPE database updater (src/cpe_updater.py) and of the     *)
(* collaborators it drives: the feed downloader, the feed parser and the   *)
(* Elasticsearch index manager.                                            *)
(*                                                                         *)
(*   SpecDiff  the pure function CPEUpdater.generate_diff, applied to      *)
(*             every pair of snapshots drawn from a bounded pool.          *)
(*   Spec      one run of CPEUpdater.update_database against a backend     *)
(*             index and a feed, one action per phase of the run.          *)
(*   SpecGroup the pure function CSVCPEMatcher.group_cpe_variants, applied *)
(*             to every hit list drawn from a bounded pool.                *)
(*   SpecMatch one run of CSVCPEMatcher.process_csv_file, one action per   *)
(*             row of the CSV file, against a backend whose answers are    *)
(*             chosen freely.                                              *)
(*   SpecUrl   the pure function CSVCPEMatcher.clean_website_url, applied  *)
(*             to every website drawn from a bounded pool, and then to its *)
(*             own result.                                                 *)
(***************************************************************************)
EXTENDS Naturals, Integers, Sequences, FiniteSets, TLC

VARIABLES
    old_entries,    \* generate_diff / update_database: Dict[str, CPEEntry]
    new_entries,    \* generate_diff / update_database: Dict[str, CPEEntry]
    diff_data,      \* generate_diff: the report (five lists), or NoValue
    stats,          \* generate_diff: UpdateStats, or NoValue
    gd_pc           \* "call" before generate_diff has run, "return" after

VARIABLES
    pc,                     \* update_database: the phase about to run
    create_diff,            \* update_database argument
    force_download,         \* update_database argument
    feed,                   \* the chunk files of the upstream feed archive
    download_file_exists,   \* NVDDataDownloader.download_file is on disk
    chunk_files,            \* the chunk files in the extract directory
    es_index,               \* the backend index: [exists, docs]
    backup_file,            \* update_database.backup_file
    backup_outcome,         \* how the backup phase ended
    download_outcome,       \* download_and_extract: "ok" (True), "failed" (False)
    delete_outcome,         \* delete_index: "ok" (True), "failed" (False)
    json_files,             \* update_database.json_files
    diff_file,              \* update_database.diff_file
    csv_diff_file,          \* update_database.csv_diff_file
    total_indexed,          \* update_database.total_indexed
    result,                 \* what update_database returned
    calls                   \* the operations the run has invoked, in order

VARIABLES
    cpe_results,    \* group_cpe_variants: the search result handed in
    result_groups,  \* group_cpe_variants: the list returned, or NoValue
    gv_pc           \* "call" before group_cpe_variants has run, "return" after

VARIABLES
    m_pc,           \* process_csv_file: the step about to run
    csv_rows,       \* the rows of the CSV file after its header
    tool_name_col,  \* process_csv_file argument
    website_col,    \* process_csv_file argument
    doc_count,      \* what get_index_stats answered
    results,        \* process_csv_file.results
    match_stats,    \* process_csv_file.stats
    queries,        \* the queries sent to the backend for the latest row
    name_results,   \* what search_by_tool_name returned for the latest row
    csv_exists,     \* the CSV file is on disk
    output_file,    \* the rows written to the output file, or NoValue
    exception       \* the exception that ended process_csv_file, or NoValue

VARIABLES
    url_in,         \* clean_website_url: the argument website
    cleaned_once,   \* clean_website_url(website), or NoValue
    cleaned_twice,  \* clean_website_url(cleaned_once), or NoValue
    url_pc          \* "call", "cleaned" after one call, "cleaned_again" after two

diffVars == <<old_entries, new_entries, diff_data, stats, gd_pc>>

envVars == <<feed, create_diff, force_download>>

updVars ==
    <<pc, download_file_exists, chunk_files, es_index, backup_file, backup_outcome,
      download_outcome, delete_outcome, json_files, diff_file, csv_diff_file, total_indexed,
      result, calls>>

groupVars == <<cpe_results, result_groups, gv_pc>>

matchVars ==
    <<m_pc, csv_rows, tool_name_col, website_col, doc_count, results, match_stats, queries,
      name_results, csv_exists, output_file, exception>>

urlVars == <<url_in, cleaned_once, cleaned_twice, url_pc>>

csvVars == <<groupVars, matchVars, urlVars>>

vars == <<diffVars, envVars, updVars, csvVars>>

NoValue == "None"

(***************************************************************************)
(* Bounds.                                                                 *)
(***************************************************************************)
MaxKeys == 2

(***************************************************************************)
(* Generic helpers.                                                        *)
(***************************************************************************)
\* Every order in which a Python set holding exactly the elements of S can
\* be iterated.
IterationOrders(S) ==
    {s \in [1..Cardinality(S) -> S] : \A i, j \in 1..Cardinality(S) : s[i] = s[j] => i = j}

(***************************************************************************)
(* CPEEntry values.  An entry is the dataclass of cpe_updater.py:21-36.    *)
(* titles and refs are Python lists of dicts, modelled as sequences of     *)
(* records, so that their comparison is by position.                       *)
(***************************************************************************)
AllNames == <<"cpe:2.3:a:acme:tool:1.0", "cpe:2.3:a:acme:tool:2.0",
              "cpe:2.3:a:bolt:kit:1.0", "cpe:2.3:a:bolt:kit:2.0">>

CpeNames == {AllNames[i] : i \in 1..MaxKeys}

TitleEn == [lang |-> "en", title |-> "Acme Tool"]
TitleJa == [lang |-> "ja", title |-> "Acme Tool JA"]
RefVendor == [ref |-> "https://acme.example/tool", type |-> "Vendor"]
RefProject == [ref |-> "https://github.com/acme/tool", type |-> "Project"]

BaseFields ==
    [cpeNameId |-> "id-1", created |-> "2020-01-01T00:00:00.000",
     lastModified |-> "2020-01-02T00:00:00.000", deprecated |-> FALSE,
     titles |-> <<TitleEn, TitleJa>>, refs |-> <<RefVendor, RefProject>>]

\* The field values an entry of the pool can take: the base entry, the base
\* entry with one field changed (for titles and refs, reordered), and a
\* deprecated entry that was modified later.
FieldVariants ==
    { BaseFields,
      [BaseFields EXCEPT !.cpeNameId = "id-2"],
      [BaseFields EXCEPT !.created = "2021-06-01T00:00:00.000"],
      [BaseFields EXCEPT !.lastModified = "2022-03-04T00:00:00.000"],
      [BaseFields EXCEPT !.deprecated = TRUE],
      [BaseFields EXCEPT !.deprecated = TRUE, !.lastModified = "2022-03-04T00:00:00.000"],
      [BaseFields EXCEPT !.titles = <<TitleJa, TitleEn>>],
      [BaseFields EXCEPT !.refs = <<RefProject, RefVendor>>] }

\* The variants that differ from the base entry in a tracked field or not at
\* all: the old snapshots draw from these, the new snapshots from all.
OldFieldVariants ==
    {f \in FieldVariants : f.cpeNameId = BaseFields.cpeNameId /\ f.created = BaseFields.created}

CPEEntry(cpeName, fields) ==
    [cpeName |-> cpeName, cpeNameId |-> fields.cpeNameId, created |-> fields.created,
     lastModified |-> fields.lastModified, deprecated |-> fields.deprecated,
     titles |-> fields.titles, refs |-> fields.refs]

\* Every snapshot over CpeNames with field values in pool: a dict keyed by
\* cpeName whose value carries that cpeName (entries[entry.cpeName] = entry).
Snapshots(pool) ==
    UNION { {[k \in K |-> CPEEntry(k, f[k])] : f \in [K -> pool]} : K \in SUBSET CpeNames }

(***************************************************************************)
(* CPEUpdater.generate_diff                                                *)
(***************************************************************************)
UpdateStats ==
    [total_old |-> 0, total_new |-> 0, added |-> 0, modified |-> 0,
     deprecated |-> 0, unchanged |-> 0]

EmptyDiffData ==
    [added |-> <<>>, modified |-> <<>>, deprecated |-> <<>>, removed |-> <<>>,
     unchanged |-> <<>>]

\* Mutant: the added keys computed without subtracting the old keys.
AddedCpes_NoSubtract(old, new) == DOMAIN new

AddedCpes(old, new) == (DOMAIN new) \ (DOMAIN old)
RemovedCpes(old, new) == (DOMAIN old) \ (DOMAIN new)
CommonCpes(old, new) == (DOMAIN old) \cap (DOMAIN new)

\* Mutant: refs left out of the comparison.
IsModified_NoRefs(old_entry, new_entry) ==
    \/ old_entry.lastModified # new_entry.lastModified
    \/ old_entry.deprecated # new_entry.deprecated
    \/ old_entry.titles # new_entry.titles

\* Mutant: titles compared with the other entry's refs.
IsModified_TitlesVsRefs(old_entry, new_entry) ==
    \/ old_entry.lastModified # new_entry.lastModified
    \/ old_entry.deprecated # new_entry.deprecated
    \/ old_entry.titles # new_entry.refs
    \/ old_entry.refs # new_entry.refs

\* The test of lines 185-188.
IsModified(old_entry, new_entry) ==
    \/ old_entry.lastModified # new_entry.lastModified
    \/ old_entry.deprecated # new_entry.deprecated
    \/ old_entry.titles # new_entry.titles
    \/ old_entry.refs # new_entry.refs

\* Mutant: the old entry's flag is not looked at.
NewlyDeprecated_NewOnly(old_entry, new_entry) == new_entry.deprecated

\* The test of line 200.
NewlyDeprecated(old_entry, new_entry) ==
    ~old_entry.deprecated /\ new_entry.deprecated

\* Mutant: titles and refs compared as sets of items.
GetFieldChanges_Unordered(old_entry, new_entry) ==
    LET Items(list) == {list[i] : i \in DOMAIN list}
        changed == {f \in {"lastModified", "deprecated"} : old_entry[f] # new_entry[f]}
                   \cup {f \in {"titles", "refs"} : Items(old_entry[f]) # Items(new_entry[f])}
    IN  [f \in changed |-> [old |-> old_entry[f], new |-> new_entry[f]]]

\* _get_field_changes: a dict holding, for each tracked field that differs,
\* its old and its new value.
GetFieldChanges(old_entry, new_entry) ==
    LET tracked == {"lastModified", "deprecated", "titles", "refs"}
        changed == {f \in tracked : old_entry[f] # new_entry[f]}
    IN  [f \in changed |-> [old |-> old_entry[f], new |-> new_entry[f]]]

\* Mutant: the added counter is not incremented.
RECURSIVE ProcessAdded_NoCount(_, _, _)
ProcessAdded_NoCount(order, new, acc) ==
    IF order = <<>> THEN acc
    ELSE ProcessAdded_NoCount(Tail(order), new,
             [diff_data |-> [acc.diff_data EXCEPT !.added = Append(@, new[Head(order)])],
              stats |-> acc.stats])

\* The loop of lines 169-172 over the added keys, in iteration order.
RECURSIVE ProcessAdded(_, _, _)
ProcessAdded(order, new, acc) ==
    IF order = <<>> THEN acc
    ELSE LET entry == new[Head(order)]
         IN  ProcessAdded(Tail(order), new,
                 [diff_data |-> [acc.diff_data EXCEPT !.added = Append(@, entry)],
                  stats |-> [acc.stats EXCEPT !.added = @ + 1]])

\* The loop of lines 175-177 over the removed keys: no counter is kept.
RECURSIVE ProcessRemoved(_, _, _)
ProcessRemoved(order, old, acc) ==
    IF order = <<>> THEN acc
    ELSE LET entry == old[Head(order)]
         IN  ProcessRemoved(Tail(order), old,
                 [diff_data |-> [acc.diff_data EXCEPT !.removed = Append(@, entry)],
                  stats |-> acc.stats])

\* One iteration of the loop of lines 180-205.
ProcessCommonEntry(cpe_name, old_entry, new_entry, acc) ==
    IF IsModified(old_entry, new_entry)
    THEN LET modification ==
                 [cpeName |-> cpe_name, old |-> old_entry, new |-> new_entry,
                  changes |-> GetFieldChanges(old_entry, new_entry)]
             dd1 == [acc.diff_data EXCEPT !.modified = Append(@, modification)]
             st1 == [acc.stats EXCEPT !.modified = @ + 1]
         IN  IF NewlyDeprecated(old_entry, new_entry)
             THEN [diff_data |-> [dd1 EXCEPT !.deprecated = Append(@, new_entry)],
                   stats |-> [st1 EXCEPT !.deprecated = @ + 1]]
             ELSE [diff_data |-> dd1, stats |-> st1]
    ELSE [diff_data |-> [acc.diff_data EXCEPT !.unchanged = Append(@, new_entry)],
          stats |-> [acc.stats EXCEPT !.unchanged = @ + 1]]

RECURSIVE ProcessCommon(_, _, _, _)
ProcessCommon(order, old, new, acc) ==
    IF order = <<>> THEN acc
    ELSE ProcessCommon(Tail(order), old, new,
             ProcessCommonEntry(Head(order), old[Head(order)], new[Head(order)], acc))

\* generate_diff(old, new) when its three sets are iterated in the orders
\* ordA, ordR and ordC: the pair (diff_data, stats) it returns.
GenerateDiffIn(old, new, ordA, ordR, ordC) ==
    LET acc0 == [diff_data |-> EmptyDiffData,
                 stats |-> [UpdateStats EXCEPT !.total_old = Cardinality(DOMAIN old),
                                               !.total_new = Cardinality(DOMAIN new)]]
        acc1 == ProcessAdded(ordA, new, acc0)
        acc2 == ProcessRemoved(ordR, old, acc1)
    IN  ProcessCommon(ordC, old, new, acc2)

\* The results generate_diff(old, new) can return: one per iteration order
\* of its three key sets.
GenerateDiffResults(old, new) ==
    {GenerateDiffIn(old, new, ordA, ordR, ordC) :
        ordA \in IterationOrders(AddedCpes(old, new)),
        ordR \in IterationOrders(RemovedCpes(old, new)),
        ordC \in IterationOrders(CommonCpes(old, new))}

\* group_cpe_variants is not under study.
GroupIdle ==
    /\ cpe_results = NoValue
    /\ result_groups = NoValue
    /\ gv_pc = "idle"

\* No process_csv_file run is in progress.
MatchIdle ==
    /\ m_pc = "idle"
    /\ csv_rows = <<>>
    /\ tool_name_col = 0
    /\ website_col = 0
    /\ doc_count = 0
    /\ results = <<>>
    /\ match_stats = NoValue
    /\ queries = <<>>
    /\ name_results = NoValue
    /\ csv_exists = FALSE
    /\ output_file = NoValue
    /\ exception = NoValue

\* clean_website_url is not under study.
UrlIdle ==
    /\ url_in = NoValue
    /\ cleaned_once = NoValue
    /\ cleaned_twice = NoValue
    /\ url_pc = "idle"

\* generate_diff is not under study.
DiffIdle ==
    /\ old_entries = NoValue
    /\ new_entries = NoValue
    /\ diff_data = NoValue
    /\ stats = NoValue
    /\ gd_pc = "idle"

\* No update_database run is in progress.
UpdateIdle ==
    /\ pc = "idle"
    /\ create_diff = FALSE
    /\ force_download = FALSE
    /\ feed = <<>>
    /\ download_file_exists = FALSE
    /\ chunk_files = <<>>
    /\ es_index = [exists |-> FALSE, docs |-> <<>>]
    /\ backup_file = NoValue
    /\ backup_outcome = NoValue
    /\ download_outcome = NoValue
    /\ delete_outcome = NoValue
    /\ json_files = <<>>
    /\ diff_file = NoValue
    /\ csv_diff_file = NoValue
    /\ total_indexed = 0
    /\ result = [returned |-> FALSE]
    /\ calls = <<>>

(***************************************************************************)
(* SpecDiff: generate_diff on every pair of snapshots.                     *)
(***************************************************************************)
InitDiff ==
    /\ old_entries \in Snapshots(OldFieldVariants)
    /\ new_entries \in Snapshots(FieldVariants)
    /\ diff_data = NoValue
    /\ stats = NoValue
    /\ gd_pc = "call"
    /\ UpdateIdle
    /\ GroupIdle
    /\ MatchIdle
    /\ UrlIdle

GenerateDiff ==
    /\ gd_pc = "call"
    /\ \E r \in GenerateDiffResults(old_entries, new_entries) :
          /\ diff_data' = r.diff_data
          /\ stats' = r.stats
    /\ gd_pc' = "return"
    /\ UNCHANGED <<old_entries, new_entries, envVars, updVars, csvVars>>

NextDiff == GenerateDiff

SpecDiff == InitDiff /\ [][NextDiff]_vars

(***************************************************************************)
(* Properties of generate_diff (checked under SpecDiff).                   *)
(***************************************************************************)
Returned == gd_pc = "return"

\* The keys a list of the report holds, position by position.  An entry of
\* added, removed, deprecated and unchanged is the entry's dict; an entry of
\* modified is the modification record; both carry cpeName.
Occurrences(list, k) == Cardinality({i \in DOMAIN list : list[i].cpeName = k})
KeysOf(list) == {list[i].cpeName : i \in DOMAIN list}

\* C1: generate_diff puts every key of old and new in exactly one of added,
\* removed, modified, unchanged, exactly once: added holds the keys of
\* new \ old, removed those of old \ new, modified and unchanged together
\* those of old /\ new; so |added| + |modified| + |unchanged| = |new| and
\* |removed| = |old \ new|.
C1_DiffPartitionsKeys ==
    Returned =>
        /\ \A k \in (DOMAIN old_entries) \cup (DOMAIN new_entries) :
              Occurrences(diff_data.added, k) + Occurrences(diff_data.removed, k)
                + Occurrences(diff_data.modified, k) + Occurrences(diff_data.unchanged, k) = 1
        /\ KeysOf(diff_data.added) = (DOMAIN new_entries) \ (DOMAIN old_entries)
        /\ KeysOf(diff_data.removed) = (DOMAIN old_entries) \ (DOMAIN new_entries)
        /\ KeysOf(diff_data.modified) \cup KeysOf(diff_data.unchanged)
              = (DOMAIN old_entries) \cap (DOMAIN new_entries)
        /\ Len(diff_data.added) + Len(diff_data.modified) + Len(diff_data.unchanged)
              = Cardinality(DOMAIN new_entries)
        /\ Len(diff_data.removed)
              = Cardinality((DOMAIN old_entries) \ (DOMAIN new_entries))

C1_Witness ==
    /\ Returned
    /\ Len(diff_data.removed) >= 1
    /\ Len(diff_data.added) >= 1

\* C2: the counters returned by generate_diff equal the lengths of the lists
\* of the report returned with them, and total_old, total_new the sizes of
\* the two snapshots.
C2_StatsMatchReport ==
    Returned =>
        /\ stats.added = Len(diff_data.added)
        /\ stats.modified = Len(diff_data.modified)
        /\ stats.deprecated = Len(diff_data.deprecated)
        /\ stats.unchanged = Len(diff_data.unchanged)
        /\ stats.total_old = Cardinality(DOMAIN old_entries)
        /\ stats.total_new = Cardinality(DOMAIN new_entries)

C2_Witness ==
    /\ Returned
    /\ stats.added >= 1
    /\ stats.modified >= 1
    /\ stats.deprecated >= 1

\* C3: a key of both snapshots is unchanged iff lastModified, deprecated,
\* titles and refs are all equal between its old and its new entry, and is
\* modified otherwise; created and cpeNameId do not count.
TrackedFieldsEqual(o, n) ==
    /\ o.lastModified = n.lastModified
    /\ o.deprecated = n.deprecated
    /\ o.titles = n.titles
    /\ o.refs = n.refs

C3_UnchangedIffTrackedEqual ==
    Returned =>
        \A k \in (DOMAIN old_entries) \cap (DOMAIN new_entries) :
            /\ k \in KeysOf(diff_data.unchanged)
                  <=> TrackedFieldsEqual(old_entries[k], new_entries[k])
            /\ k \in KeysOf(diff_data.modified)
                  <=> ~TrackedFieldsEqual(old_entries[k], new_entries[k])

C3_Witness ==
    /\ Returned
    /\ \E k \in KeysOf(diff_data.unchanged) :
          /\ k \in DOMAIN old_entries
          /\ old_entries[k].created # new_entries[k].created
    /\ \E k \in KeysOf(diff_data.modified) :
          /\ old_entries[k].refs # new_entries[k].refs
          /\ old_entries[k].lastModified = new_entries[k].lastModified

\* C4: a key is in the deprecated list iff it is in both snapshots with
\* old.deprecated = false and new.deprecated = true; such a key is also in
\* modified and not in unchanged.
C4_DeprecatedIffTransition ==
    Returned =>
        /\ \A k \in (DOMAIN old_entries) \cup (DOMAIN new_entries) :
              k \in KeysOf(diff_data.deprecated)
                <=> /\ k \in DOMAIN old_entries
                    /\ k \in DOMAIN new_entries
                    /\ old_entries[k].deprecated = FALSE
                    /\ new_entries[k].deprecated = TRUE
        /\ KeysOf(diff_data.deprecated) \subseteq (DOMAIN old_entries) \cup (DOMAIN new_entries)
        /\ KeysOf(diff_data.deprecated) \subseteq KeysOf(diff_data.modified)
        /\ KeysOf(diff_data.deprecated) \cap KeysOf(diff_data.unchanged) = {}

\* The scenario of the claim: one entry whose only change is deprecated
\* false -> true gives modified = 1, deprecated = 1, unchanged = 0.
C4_Witness ==
    /\ Returned
    /\ Cardinality(DOMAIN old_entries) = 1
    /\ DOMAIN new_entries = DOMAIN old_entries
    /\ \E k \in DOMAIN old_entries :
          /\ old_entries[k] = CPEEntry(k, BaseFields)
          /\ new_entries[k] = CPEEntry(k, [BaseFields EXCEPT !.deprecated = TRUE])
    /\ Len(diff_data.modified) = 1
    /\ Len(diff_data.deprecated) = 1
    /\ Len(diff_data.unchanged) = 0

\* C5: generate_diff(A, A) yields empty added, removed, modified and
\* deprecated lists and an unchanged list of exactly |A| entries.
C5_DiffOfSnapshotWithItself ==
    (Returned /\ old_entries = new_entries) =>
        /\ diff_data.added = <<>>
        /\ diff_data.removed = <<>>
        /\ diff_data.modified = <<>>
        /\ diff_data.deprecated = <<>>
        /\ Len(diff_data.unchanged) = Cardinality(DOMAIN old_entries)

C5_Witness ==
    /\ Returned
    /\ old_entries = new_entries
    /\ Cardinality(DOMAIN old_entries) = MaxKeys
    /\ \E k \in DOMAIN old_entries : old_entries[k].deprecated

\* list b holds the items of list a, each as often, in another order.
Reordered(a, b) ==
    /\ a # b
    /\ Len(a) = Len(b)
    /\ \A x \in {a[i] : i \in DOMAIN a} \cup {b[i] : i \in DOMAIN b} :
          Cardinality({i \in DOMAIN a : a[i] = x}) = Cardinality({i \in DOMAIN b : b[i] = x})

\* The new entry of o differs from it in the order of list field f alone,
\* among the tracked fields.
OnlyReordered(o, n, f) ==
    /\ Reordered(o[f], n[f])
    /\ \A g \in {"lastModified", "deprecated", "titles", "refs"} \ {f} : o[g] = n[g]

\* C23: generate_diff compares titles and refs by position: a key whose new
\* entry holds the same titles (or the same refs) as its old entry in a
\* different order, all other tracked fields being equal, is in modified,
\* and its field-level changes name the reordered field and no other.
C23_ReorderingIsModification ==
    Returned =>
        \A k \in (DOMAIN old_entries) \cap (DOMAIN new_entries) :
            \A f \in {"titles", "refs"} :
                OnlyReordered(old_entries[k], new_entries[k], f) =>
                    /\ k \notin KeysOf(diff_data.unchanged)
                    /\ \E i \in DOMAIN diff_data.modified :
                          /\ diff_data.modified[i].cpeName = k
                          /\ DOMAIN diff_data.modified[i].changes = {f}
                          /\ diff_data.modified[i].changes[f] =
                                [old |-> old_entries[k][f], new |-> new_entries[k][f]]

\* One key had its titles reordered and another its refs.
C23_Witness ==
    /\ Returned
    /\ \E k1, k2 \in (DOMAIN old_entries) \cap (DOMAIN new_entries) :
          /\ OnlyReordered(old_entries[k1], new_entries[k1], "titles")
          /\ OnlyReordered(old_entries[k2], new_entries[k2], "refs")
          /\ Len(diff_data.modified) = 2

(***************************************************************************)
(* The feed: chunk files and the raw products they hold.                   *)
(*                                                                         *)
(* A raw product is the dict under a product's "cpe" key; a key the feed   *)
(* leaves out is absent from the record's domain.  A chunk file is either  *)
(* not parseable as JSON (parseable = FALSE) or a document with a format   *)
(* discriminator and a list of products.                                   *)
(***************************************************************************)
MaxFiles == 2

\* dict.get(key, default)
Get(d, key, default) == IF key \in DOMAIN d THEN d[key] ELSE default

\* Python truthiness of a value that is a string or None.
Truthy(v) == v # NoValue /\ v # ""

RawToolOld == CPEEntry(AllNames[1], BaseFields)
RawToolNew == CPEEntry(AllNames[1],
                  [BaseFields EXCEPT !.deprecated = TRUE,
                                     !.lastModified = "2022-03-04T00:00:00.000"])
RawKit == CPEEntry(AllNames[2], [BaseFields EXCEPT !.cpeNameId = "id-2"])
RawNoName ==
    [cpeNameId |-> "id-3", created |-> "2020-01-01T00:00:00.000",
     lastModified |-> "2020-01-02T00:00:00.000", deprecated |-> FALSE]

ExpectedFormat == "NVD_CPE"

Chunk(format, products) == [parseable |-> TRUE, format |-> format, products |-> products]

ChunkPool ==
    { Chunk(ExpectedFormat, <<RawToolNew>>),
      Chunk(ExpectedFormat, <<RawKit, RawToolOld>>),
      Chunk(ExpectedFormat, <<>>),
      Chunk(ExpectedFormat, <<RawNoName>>),
      Chunk("NVD_CVE", <<RawKit>>),
      [parseable |-> FALSE] }

\* The feeds: up to MaxFiles chunk files, in file-name order.
Feeds == UNION {[1..n -> ChunkPool] : n \in 0..MaxFiles}

(***************************************************************************)
(* CPEDataParser (src/data_parser.py)                                      *)
(***************************************************************************)
\* _parse_date: dateutil's parse followed by isoformat(); None for an empty
\* or unparseable string.  isoformat() drops a zero fraction of a second.
ParseDate(date_string) ==
    IF ~Truthy(date_string) THEN NoValue
    ELSE CASE date_string = "2020-01-01T00:00:00.000" -> "2020-01-01T00:00:00"
           [] date_string = "2020-01-02T00:00:00.000" -> "2020-01-02T00:00:00"
           [] date_string = "2021-06-01T00:00:00.000" -> "2021-06-01T00:00:00"
           [] date_string = "2022-03-04T00:00:00.000" -> "2022-03-04T00:00:00"
           [] date_string = "2020-01-01T00:00:00" -> "2020-01-01T00:00:00"
           [] date_string = "2020-01-02T00:00:00" -> "2020-01-02T00:00:00"
           [] date_string = "2021-06-01T00:00:00" -> "2021-06-01T00:00:00"
           [] date_string = "2022-03-04T00:00:00" -> "2022-03-04T00:00:00"
           [] OTHER -> NoValue

KeepRef(ref) == Truthy(Get(ref, "ref", NoValue))
KeepTitle(title) == Truthy(Get(title, "title", NoValue))

\* A Python dict built key by key: the keys of both, b's value winning.
Merge(a, b) ==
    [k \in (DOMAIN a) \cup (DOMAIN b) |-> IF k \in DOMAIN b THEN b[k] ELSE a[k]]

EmptyDict == [k \in {} |-> NoValue]

\* _parse_product
ParseProduct(cpe_data) ==
    LET basic == [cpeName |-> Get(cpe_data, "cpeName", NoValue),
                  cpeNameId |-> Get(cpe_data, "cpeNameId", NoValue),
                  deprecated |-> Get(cpe_data, "deprecated", FALSE)]
        created == IF "created" \in DOMAIN cpe_data
                   THEN [created |-> ParseDate(cpe_data.created)] ELSE EmptyDict
        modified == IF "lastModified" \in DOMAIN cpe_data
                    THEN [lastModified |-> ParseDate(cpe_data.lastModified)] ELSE EmptyDict
        refs == Get(cpe_data, "refs", <<>>)
        titles == Get(cpe_data, "titles", <<>>)
        outRefs == IF Len(refs) > 0
                   THEN [refs |-> [i \in DOMAIN SelectSeq(refs, KeepRef) |->
                                     [ref |-> Get(SelectSeq(refs, KeepRef)[i], "ref", NoValue),
                                      type |-> Get(SelectSeq(refs, KeepRef)[i], "type", NoValue)]]]
                   ELSE EmptyDict
        outTitles == IF Len(titles) > 0
                     THEN [titles |-> [i \in DOMAIN SelectSeq(titles, KeepTitle) |->
                                     [lang |-> Get(SelectSeq(titles, KeepTitle)[i], "lang", NoValue),
                                      title |-> Get(SelectSeq(titles, KeepTitle)[i], "title", NoValue)]]]
                     ELSE EmptyDict
    IN  Merge(Merge(Merge(Merge(basic, created), modified), outRefs), outTitles)

\* parse_json_file: the parsed products of one chunk file; none for a file
\* that cannot be read or whose format is not the expected one.  The dict
\* _parse_product returns always holds three keys, so every product is kept.
ParseJsonFile(json_file) ==
    IF ~json_file.parseable THEN <<>>
    ELSE IF json_file.format # ExpectedFormat THEN <<>>
    ELSE [i \in DOMAIN json_file.products |-> ParseProduct(json_file.products[i])]

BatchSize == 1000

\* The slices products[i:i + batch_size] for i in range(0, len, batch_size).
BatchesOf(products) ==
    LET n == (Len(products) + BatchSize - 1) \div BatchSize
    IN  [b \in 1..n |->
            SubSeq(products, (b - 1) * BatchSize + 1,
                   IF b * BatchSize < Len(products) THEN b * BatchSize ELSE Len(products))]

RECURSIVE Flatten(_)
Flatten(seqs) == IF seqs = <<>> THEN <<>> ELSE Head(seqs) \o Flatten(Tail(seqs))

\* The batches process_and_index_files hands to bulk_index_documents, in
\* order, over all files.
AllBatches(files) == Flatten([i \in DOMAIN files |-> BatchesOf(ParseJsonFile(files[i]))])

(***************************************************************************)
(* Snapshot loading (src/cpe_updater.py)                                   *)
(***************************************************************************)
\* The CPEEntry built from a dict d with the defaults of lines 99-107 and
\* 127-135.
EntryFrom(d) ==
    [cpeName |-> Get(d, "cpeName", ""), cpeNameId |-> Get(d, "cpeNameId", ""),
     created |-> Get(d, "created", ""), lastModified |-> Get(d, "lastModified", ""),
     deprecated |-> Get(d, "deprecated", FALSE),
     titles |-> Get(d, "titles", <<>>), refs |-> Get(d, "refs", <<>>)]

\* entries[entry.cpeName] = entry for every element of a list of entries, in
\* order: the last entry of a name wins.
RECURSIVE DictOfEntries(_)
DictOfEntries(list) ==
    IF list = <<>> THEN EmptyDict
    ELSE LET rest == DictOfEntries(SubSeq(list, 1, Len(list) - 1))
             last == list[Len(list)]
         IN  Merge(rest, [k \in {last.cpeName} |-> last])

\* load_cpe_entries_from_backup on a backup file holding data; an unreadable
\* file gives the empty dict.
LoadCpeEntriesFromBackup(data, readable) ==
    IF ~readable THEN EmptyDict
    ELSE DictOfEntries([i \in DOMAIN data |-> EntryFrom(data[i])])

\* The entries load_cpe_entries_from_json_files takes from one file.
EntriesOfFile(json_file) ==
    IF ~json_file.parseable THEN <<>>
    ELSE LET products == Get(json_file, "products", <<>>)
             built == [i \in DOMAIN products |-> EntryFrom(products[i])]
         IN  SelectSeq(built, LAMBDA e : Truthy(e.cpeName))

\* load_cpe_entries_from_json_files
LoadCpeEntriesFromJsonFiles(files) ==
    DictOfEntries(Flatten([i \in DOMAIN files |-> EntriesOfFile(files[i])]))

(***************************************************************************)
(* The backend index (src/elasticsearch_manager.py) and its export         *)
(* (CPESearchClient.get_all_documents).                                    *)
(***************************************************************************)
NoIndex == [exists |-> FALSE, docs |-> <<>>]

\* The states the index can be in before a run: absent, or holding what an
\* earlier indexing of one chunk file stored.
IndexPool ==
    {NoIndex} \cup {[exists |-> TRUE, docs |-> ParseJsonFile(c)] : c \in ChunkPool}

\* get_all_documents: the _source of every document; the empty list when the
\* search fails (backend unreachable, or no such index).
GetAllDocuments(index, reachable) ==
    IF reachable /\ index.exists THEN index.docs ELSE <<>>

\* delete_index, when the backend answers (ok) and when it does not.
DeleteIndexEffect(index, ok) == IF ok THEN NoIndex ELSE index

\* create_index when no error is raised: an existing index is left as it is.
CreateIndexEffect(index) ==
    IF index.exists THEN index ELSE [exists |-> TRUE, docs |-> <<>>]

\* The index after the bulk calls for batches, oks[b] telling whether the
\* b-th call succeeded: a successful call stores its documents.
RECURSIVE BulkIndexAll(_, _, _)
BulkIndexAll(index, batches, oks) ==
    IF batches = <<>> THEN index
    ELSE BulkIndexAll(
             IF Head(oks) THEN [exists |-> TRUE, docs |-> index.docs \o Head(batches)]
                          ELSE index,
             Tail(batches), Tail(oks))

\* Mutant: every batch is counted, whether its bulk call succeeded or not.
RECURSIVE TotalIndexed_CountAll(_, _)
TotalIndexed_CountAll(batches, oks) ==
    IF batches = <<>> THEN 0
    ELSE Len(Head(batches)) + TotalIndexed_CountAll(Tail(batches), Tail(oks))

\* total_indexed as process_and_index_files accumulates it.
RECURSIVE TotalIndexed(_, _)
TotalIndexed(batches, oks) ==
    IF batches = <<>> THEN 0
    ELSE (IF Head(oks) THEN Len(Head(batches)) ELSE 0) + TotalIndexed(Tail(batches), Tail(oks))

(***************************************************************************)
(* CPEUpdater.update_database, one action per phase.                       *)
(*                                                                         *)
(* Each action draws the outcome of the calls it makes to the backend, the *)
(* network and the file system from the outcomes the called code           *)
(* distinguishes: a failure caught by a try/except is the value the except *)
(* clause returns, a failure no except clause catches leaves the run as an *)
(* exception (pc = "raised").  A backup file that cannot be re-read gives  *)
(* the empty dict (open or json.load failing before any entry is stored).  *)
(* calls records the operations update_database has invoked.               *)
(***************************************************************************)
Timestamp == "20240101_000000"

Failure(error) == [returned |-> TRUE, success |-> FALSE, error |-> error]

BackupOutcomes == {"ok", "export_failed", "write_failed", "read_failed"}

\* create_backup: the path of the backup file, or None when writing it
\* failed (lines 86-88).
CreateBackup(write_ok) == IF write_ok THEN "cpe_backup_" \o Timestamp \o ".json" ELSE NoValue

\* Mutant: a backup that could not be made ends the run.
AfterBackup_Abort(file) == IF file = NoValue THEN "done" ELSE "download"

\* Lines 323-330: whatever the backup gave, the download comes next.
AfterBackup(file) == "download"

\* Mutant: the result of download_and_extract is ignored.
AfterDownload_NoAbort(ok) == "load"

\* Mutant: a failed download is tried again.
AfterDownload_Retry(ok) == IF ok THEN "load" ELSE "download"

\* Lines 331-335.
AfterDownload(ok) == IF ok THEN "load" ELSE "done"

\* Mutant: a failed delete_index ends the run.
AfterDeleteIndex_Abort(ok) == IF ok THEN "create_index" ELSE "done"

\* Lines 368-369: a failed delete_index is logged, index creation comes next.
AfterDeleteIndex(ok) == "create_index"

\* Lines 339-343.
AfterGetJsonFiles(files) == IF files = <<>> THEN "done" ELSE "diff"

\* Line 353: an empty dict is falsy.
ShouldDiff(create, old) == create /\ DOMAIN old # {}

InitUpdate ==
    /\ pc = "backup"
    /\ create_diff \in BOOLEAN
    /\ force_download \in BOOLEAN
    /\ feed \in Feeds
    /\ download_file_exists \in BOOLEAN
    /\ chunk_files = <<>>
    /\ es_index \in IndexPool
    /\ backup_file = NoValue
    /\ backup_outcome = NoValue
    /\ download_outcome = NoValue
    /\ delete_outcome = NoValue
    /\ json_files = <<>>
    /\ diff_file = NoValue
    /\ csv_diff_file = NoValue
    /\ total_indexed = 0
    /\ result = [returned |-> FALSE]
    /\ calls = <<>>
    /\ old_entries = EmptyDict
    /\ new_entries = EmptyDict
    /\ diff_data = NoValue
    /\ stats = NoValue
    /\ gd_pc = "call"
    /\ GroupIdle
    /\ MatchIdle
    /\ UrlIdle

\* Step 1 (lines 319-327).
Backup ==
    /\ pc = "backup"
    /\ IF create_diff
       THEN \E outcome \in BackupOutcomes :
              LET all_docs == GetAllDocuments(es_index, outcome # "export_failed")
                  file == CreateBackup(outcome # "write_failed")
              IN  /\ outcome = "ok" => es_index.exists
                  /\ backup_outcome' = outcome
                  /\ backup_file' = file
                  /\ old_entries' = IF file # NoValue
                                    THEN LoadCpeEntriesFromBackup(all_docs, outcome # "read_failed")
                                    ELSE EmptyDict
                  /\ calls' = Append(calls, "create_backup")
                  /\ pc' = AfterBackup(file)
       ELSE /\ backup_outcome' = "skipped"
            /\ pc' = "download"
            /\ UNCHANGED <<backup_file, old_entries, calls>>
    /\ UNCHANGED <<new_entries, diff_data, stats, gd_pc, envVars, download_file_exists,
                   chunk_files, es_index, download_outcome, delete_outcome, json_files, diff_file,
                   csv_diff_file, total_indexed, result>>
    /\ UNCHANGED csvVars

\* Step 2 (lines 329-335) with download_and_extract, download_feed,
\* extract_feed and cleanup_download of src/data_downloader.py.
Download ==
    /\ pc = "download"
    /\ \E fetch_ok \in BOOLEAN, extract_ok \in BOOLEAN :
          LET fetches == ~(download_file_exists /\ ~force_download)
              fed == ~fetches \/ fetch_ok
              on_disk == fetch_ok \/ download_file_exists
              ok == fed /\ extract_ok
          IN  /\ ~fetches => fetch_ok
              /\ ~fed => extract_ok
              /\ download_outcome' = IF ok THEN "ok" ELSE "failed"
              /\ download_file_exists' = IF ok THEN FALSE ELSE on_disk
              /\ chunk_files' = IF ok THEN feed ELSE chunk_files
              /\ pc' = AfterDownload(ok)
              /\ result' = IF ok THEN result ELSE Failure("Failed to download latest data")
    /\ calls' = Append(calls, "download_and_extract")
    /\ UNCHANGED <<diffVars, envVars, es_index, backup_file, backup_outcome, delete_outcome,
                   json_files, diff_file, csv_diff_file, total_indexed>>
    /\ UNCHANGED csvVars

\* Step 3 (lines 337-346).
LoadNew ==
    /\ pc = "load"
    /\ json_files' = chunk_files
    /\ pc' = AfterGetJsonFiles(chunk_files)
    /\ IF AfterGetJsonFiles(chunk_files) = "done"
       THEN /\ result' = Failure("No JSON files found after download")
            /\ calls' = Append(calls, "get_json_files")
            /\ UNCHANGED new_entries
       ELSE /\ new_entries' = LoadCpeEntriesFromJsonFiles(chunk_files)
            /\ calls' = calls \o <<"get_json_files", "load_cpe_entries_from_json_files">>
            /\ UNCHANGED result
    /\ UNCHANGED <<old_entries, diff_data, stats, gd_pc, envVars, download_file_exists,
                   chunk_files, es_index, backup_file, backup_outcome, download_outcome, delete_outcome,
                   diff_file, csv_diff_file, total_indexed>>
    /\ UNCHANGED csvVars

\* Step 4 (lines 348-362).
Diff ==
    /\ pc = "diff"
    /\ IF ShouldDiff(create_diff, old_entries)
       THEN /\ \E r \in GenerateDiffResults(old_entries, new_entries) :
                  /\ diff_data' = r.diff_data
                  /\ stats' = r.stats
            /\ gd_pc' = "return"
            /\ diff_file' = "cpe_diff_" \o Timestamp \o ".json"
            /\ csv_diff_file' = "cpe_diff_summary_" \o Timestamp \o ".csv"
            /\ calls' = calls \o <<"generate_diff", "save_diff_report", "create_csv_diff_report">>
       ELSE UNCHANGED <<diff_data, stats, gd_pc, diff_file, csv_diff_file, calls>>
    /\ pc' = "delete_index"
    /\ UNCHANGED <<old_entries, new_entries, envVars, download_file_exists, chunk_files,
                   es_index, backup_file, backup_outcome, download_outcome, delete_outcome, json_files,
                   total_indexed, result>>
    /\ UNCHANGED csvVars

\* Step 5, clearing the index (lines 367-369): a failure is only logged.
DeleteIndex ==
    /\ pc = "delete_index"
    /\ \E ok \in BOOLEAN :
          /\ es_index' = DeleteIndexEffect(es_index, ok)
          /\ delete_outcome' = IF ok THEN "ok" ELSE "failed"
          /\ pc' = AfterDeleteIndex(ok)
    /\ calls' = Append(calls, "delete_index")
    /\ UNCHANGED <<diffVars, envVars, download_file_exists, chunk_files, backup_file,
                   backup_outcome, download_outcome, json_files, diff_file, csv_diff_file,
                   total_indexed, result>>
    /\ UNCHANGED csvVars

\* Step 5, recreating the index (lines 371-375).  create_index catches
\* RequestError only: any other backend error leaves update_database as an
\* exception.
CreateIndex ==
    /\ pc = "create_index"
    /\ \E outcome \in {"ok", "request_error", "other_error"} :
          /\ es_index' = IF outcome = "ok" THEN CreateIndexEffect(es_index) ELSE es_index
          /\ pc' = CASE outcome = "ok" -> "index_files"
                     [] outcome = "request_error" -> "done"
                     [] outcome = "other_error" -> "raised"
          /\ result' = IF outcome = "request_error"
                       THEN Failure("Failed to recreate index") ELSE result
    /\ calls' = Append(calls, "create_index")
    /\ UNCHANGED <<diffVars, envVars, download_file_exists, chunk_files, backup_file,
                   backup_outcome, download_outcome, delete_outcome, json_files, diff_file, csv_diff_file,
                   total_indexed>>
    /\ UNCHANGED csvVars

\* Step 5, indexing (lines 377-400) with process_and_index_files.
IndexFiles ==
    /\ pc = "index_files"
    /\ LET batches == AllBatches(json_files)
       IN  \E oks \in [DOMAIN batches -> BOOLEAN] :
              LET total == TotalIndexed(batches, oks)
              IN  /\ es_index' = BulkIndexAll(es_index, batches, oks)
                  /\ total_indexed' = total
                  /\ result' =
                        IF total = 0 THEN Failure("Failed to index any documents")
                        ELSE Merge([returned |-> TRUE, success |-> TRUE,
                                    timestamp |-> Timestamp, total_indexed |-> total,
                                    backup_file |-> backup_file, diff_file |-> diff_file,
                                    csv_diff_file |-> csv_diff_file],
                                   IF gd_pc = "return" THEN [statistics |-> stats]
                                                       ELSE EmptyDict)
    /\ calls' = Append(calls, "process_and_index_files")
    /\ pc' = "done"
    /\ UNCHANGED <<diffVars, envVars, download_file_exists, chunk_files, backup_file,
                   backup_outcome, download_outcome, delete_outcome, json_files, diff_file, csv_diff_file>>
    /\ UNCHANGED csvVars

Next == Backup \/ Download \/ LoadNew \/ Diff \/ DeleteIndex \/ CreateIndex \/ IndexFiles

Spec == InitUpdate /\ [][Next]_vars

(***************************************************************************)
(* Properties of update_database (checked under Spec).                     *)
(***************************************************************************)
Called(op) == \E i \in DOMAIN calls : calls[i] = op

Finished == pc \in {"done", "raised"}

FailedWith(error) ==
    /\ pc = "done"
    /\ result.returned
    /\ ~result.success
    /\ result.error = error

\* C6: if the download step fails, the run returns a failure result at once
\* and no later phase acts: no feed file is loaded, no diff report is
\* written, and delete_index, create_index and bulk indexing are not invoked.
C6_DownloadFailureAborts ==
    download_outcome = "failed" =>
        /\ FailedWith("Failed to download latest data")
        /\ calls[Len(calls)] = "download_and_extract"
        /\ ~Called("get_json_files")
        /\ ~Called("load_cpe_entries_from_json_files")
        /\ ~Called("generate_diff")
        /\ ~Called("save_diff_report")
        /\ ~Called("create_csv_diff_report")
        /\ ~Called("delete_index")
        /\ ~Called("create_index")
        /\ ~Called("process_and_index_files")
        /\ json_files = <<>>
        /\ DOMAIN new_entries = {}
        /\ diff_file = NoValue
        /\ csv_diff_file = NoValue
        /\ total_indexed = 0

C6_Witness ==
    /\ download_outcome = "failed"
    /\ pc = "done"
    /\ create_diff
    /\ backup_outcome = "ok"
    /\ DOMAIN old_entries # {}
    /\ es_index.exists
    /\ Len(es_index.docs) > 0

\* C7: if loading the new snapshot yields zero chunk files or zero parsed
\* records, the run aborts in that phase with a failure result: the diff
\* phase does not run and the existing index is not deleted.
LoadedNothing ==
    /\ download_outcome = "ok"
    /\ Called("get_json_files")
    /\ (json_files = <<>> \/ DOMAIN new_entries = {})

C7_EmptyLoadAborts ==
    LoadedNothing =>
        /\ ~Called("generate_diff")
        /\ ~Called("delete_index")
        /\ pc = "done" => (result.returned /\ ~result.success)

\* C8: once the run is past the diff phase, the diff has run (generate_diff
\* called, both reports written, statistics in a successful result) iff
\* create_diff is set and the backup phase succeeded, also over an empty
\* index.
PastDiff == pc \in {"delete_index", "create_index", "index_files"} \/ Called("delete_index")

DiffRan ==
    /\ Called("generate_diff")
    /\ Called("save_diff_report")
    /\ Called("create_csv_diff_report")
    /\ diff_file # NoValue
    /\ csv_diff_file # NoValue

C8_DiffIffRequestedAndBackedUp ==
    PastDiff =>
        /\ DiffRan <=> (create_diff /\ backup_outcome = "ok")
        /\ (pc = "done" /\ result.returned /\ result.success) =>
              ("statistics" \in DOMAIN result <=> (create_diff /\ backup_outcome = "ok"))

\* C9: a failure of the backup phase (export, writing or re-reading the
\* backup file) never makes the run return a failure result or skip the
\* download, load and reindex phases: the run continues with an empty old
\* snapshot.
BackupFailed == backup_outcome \in {"export_failed", "write_failed", "read_failed"}

LaterFailures ==
    {"Failed to download latest data", "No JSON files found after download",
     "Failed to recreate index", "Failed to index any documents"}

C9_BackupFailureNeverAborts ==
    BackupFailed =>
        /\ DOMAIN old_entries = {}
        /\ pc # "backup"
        /\ Finished => Called("download_and_extract")
        /\ (Finished /\ download_outcome = "ok") => Called("get_json_files")
        /\ (Finished /\ download_outcome = "ok" /\ json_files # <<>>) =>
              /\ Called("load_cpe_entries_from_json_files")
              /\ Called("delete_index")
              /\ Called("create_index")
        /\ (Called("create_index") /\ es_index.exists /\ Finished /\ pc # "raised"
              /\ result.returned /\ result.success) => Called("process_and_index_files")
        /\ (pc = "done" /\ result.returned /\ ~result.success) =>
              result.error \in LaterFailures
        /\ (pc = "done" /\ total_indexed > 0) => (result.returned /\ result.success)

C9_Witness ==
    /\ backup_outcome = "write_failed"
    /\ es_index.exists
    /\ pc = "done"
    /\ result.returned
    /\ result.success
    /\ total_indexed > 0

\* C10: within one run the phases backup, download, load, diff, reindex
\* (delete, create, bulk-load) are each attempted at most once and only in
\* that order; once a phase has produced a failure result no later phase
\* acts.
PhaseOrder ==
    <<"create_backup", "download_and_extract", "get_json_files",
      "load_cpe_entries_from_json_files", "generate_diff", "save_diff_report",
      "create_csv_diff_report", "delete_index", "create_index",
      "process_and_index_files">>

PhaseRank(op) == CHOOSE i \in DOMAIN PhaseOrder : PhaseOrder[i] = op

FailingCall(error) ==
    CASE error = "Failed to download latest data" -> "download_and_extract"
      [] error = "No JSON files found after download" -> "get_json_files"
      [] error = "Failed to recreate index" -> "create_index"
      [] error = "Failed to index any documents" -> "process_and_index_files"

C10_PhasesForwardOnly ==
    /\ \A i, j \in DOMAIN calls : i < j => PhaseRank(calls[i]) < PhaseRank(calls[j])
    /\ (result.returned /\ ~result.success) =>
          /\ pc = "done"
          /\ calls[Len(calls)] = FailingCall(result.error)

C10_Witness ==
    /\ pc = "done"
    /\ result.returned
    /\ result.success
    /\ calls = PhaseOrder

\* C11: a sequencing error of update_database (the download produced no
\* files, the index could not be recreated, or indexing indexed zero
\* records) is returned, not raised: the result has success = false, a
\* non-empty error string and no statistics.
SequencingError ==
    /\ Finished
    /\ download_outcome = "ok"
    /\ \/ json_files = <<>>
       \/ calls[Len(calls)] = "create_index"
       \/ (Called("process_and_index_files") /\ total_indexed = 0)

C11_SequencingErrorsReturned ==
    SequencingError =>
        /\ pc = "done"
        /\ result.returned
        /\ ~result.success
        /\ result.error # ""
        /\ "statistics" \notin DOMAIN result

\* C12: update_database reports success only if no record of the new feed
\* failed to be indexed: on success total_indexed equals the number of
\* records parsed from the feed files.
NumParsed(files) == Len(Flatten([i \in DOMAIN files |-> ParseJsonFile(files[i])]))

Succeeded == pc = "done" /\ result.returned /\ result.success

C12_SuccessMeansAllIndexed ==
    Succeeded => total_indexed = NumParsed(json_files)

\* C12 as amended: the run succeeds iff at least one record was indexed; a
\* failed bulk batch is skipped, total_indexed counts the records of the
\* batches that succeeded (all of them stored in the index, none more than
\* were parsed), and the run fails with "Failed to index any documents"
\* only when no batch succeeded.
C12_SuccessIffSomeIndexed ==
    (pc = "done" /\ Called("process_and_index_files")) =>
        /\ result.returned
        /\ result.success <=> total_indexed > 0
        /\ result.success => result.total_indexed = total_indexed
        /\ ~result.success => result.error = "Failed to index any documents"
        /\ total_indexed <= NumParsed(json_files)
        /\ total_indexed <= Len(es_index.docs)
        /\ total_indexed > 0 => es_index.exists

C12_Witness ==
    /\ Succeeded
    /\ total_indexed > 0
    /\ total_indexed < NumParsed(json_files)

\* C13: every backend-facing operation turns any backend error into its
\* failure value and never lets the error reach its caller: no backend
\* error ends update_database as an exception.
C13_BackendErrorsNeverPropagate == pc # "raised"

\* C26: a failure to delete the existing index during the reindex phase
\* never aborts the run: index creation is attempted next, the run ends
\* before the bulk loading only if index creation itself returned false or
\* raised, and the run can still return success.
C26_DeleteFailureNeverAborts ==
    delete_outcome = "failed" =>
        /\ pc \in {"create_index", "index_files", "done", "raised"}
        /\ pc # "create_index" => Called("create_index")
        /\ pc = "index_files" => ~result.returned
        /\ pc = "done" =>
              \/ FailedWith("Failed to recreate index")
              \/ Called("process_and_index_files")
        /\ pc = "raised" => ~Called("process_and_index_files")

\* The old index could not be deleted and the run returned success, the
\* documents of the old index still standing beside the new ones.
C26_Witness ==
    /\ delete_outcome = "failed"
    /\ Succeeded
    /\ Len(es_index.docs) > total_indexed

\* The chunk files parse_json_file accepts.
ExpectedFormatFiles(files) ==
    SelectSeq(files, LAMBDA f : f.parseable /\ f.format = ExpectedFormat)

\* C27: snapshot loading skips a chunk file whose format discriminator is
\* not the expected value: the new snapshot holds the products of the
\* remaining files only.
C27_SnapshotSkipsUnexpectedFormat ==
    Called("load_cpe_entries_from_json_files") =>
        new_entries = LoadCpeEntriesFromJsonFiles(ExpectedFormatFiles(json_files))

\* C28: no snapshot handed to generate_diff by update_database holds an
\* entry with a missing or empty name.
C28_NoNamelessEntryInDiff ==
    Called("generate_diff") =>
        /\ \A k \in DOMAIN old_entries : Truthy(k) /\ Truthy(old_entries[k].cpeName)
        /\ \A k \in DOMAIN new_entries : Truthy(k) /\ Truthy(new_entries[k].cpeName)

\* The records parse_json_file takes from the chunk files, in order.
ParsedRecords(files) == Flatten([i \in DOMAIN files |-> ParseJsonFile(files[i])])

\* Lists a and b hold the same records, each as often.
SameRecords(a, b) ==
    /\ Len(a) = Len(b)
    /\ \A x \in {a[i] : i \in DOMAIN a} \cup {b[i] : i \in DOMAIN b} :
          Cardinality({i \in DOMAIN a : a[i] = x}) = Cardinality({i \in DOMAIN b : b[i] = x})

\* C29: whenever update_database returns success, the index holds exactly
\* the records of the newly downloaded feed, each once, and none of the
\* records it held before the run, also when deleting the old index failed.
C29_SuccessMeansIndexIsNewFeed ==
    Succeeded => SameRecords(es_index.docs, ParsedRecords(json_files))

\* The old snapshot is what a successful run on the same feed stored.
SecondRunOnSameFeed ==
    /\ create_diff
    /\ backup_outcome = "ok"
    /\ old_entries = LoadCpeEntriesFromBackup(ParsedRecords(feed), TRUE)

\* C30: a second run of update_database against the same unchanged feed,
\* with create_diff set, reports zero added, zero removed and zero modified
\* entries.
C30_SecondRunReportsNoChange ==
    (Succeeded /\ SecondRunOnSameFeed /\ Called("generate_diff")) =>
        /\ Len(diff_data.added) = 0
        /\ Len(diff_data.removed) = 0
        /\ Len(diff_data.modified) = 0


(***************************************************************************)
(* src/csv_cpe_matcher.py: CPE names.  A name is kept as the sequence of   *)
(* its pieces, a piece being ":" or a run of other characters, so that     *)
(* str.split(':') and ':'.join(...) are computed piece by piece.           *)
(***************************************************************************)
MaxHits == 3

Colon == ":"

\* cpe_name.split(':'): the parts between the colons, each a sequence of
\* pieces; ''.split(':') is [''].
RECURSIVE Split(_)
Split(s) ==
    IF s = <<>> THEN << <<>> >>
    ELSE LET rest == Split(Tail(s))
         IN  IF Head(s) = Colon THEN << <<>> >> \o rest
             ELSE << <<Head(s)>> \o rest[1] >> \o Tail(rest)

\* ':'.join(parts)
RECURSIVE Join(_)
Join(parts) ==
    IF parts = <<>> THEN <<>>
    ELSE IF Len(parts) = 1 THEN parts[1]
    ELSE parts[1] \o <<Colon>> \o Join(Tail(parts))

Wildcard == <<"*">>

CpeToolV1 == <<"cpe", ":", "2.3", ":", "a", ":", "acme", ":", "tool", ":", "1.0", ":", "*">>
CpeToolV1Sp1 == <<"cpe", ":", "2.3", ":", "a", ":", "acme", ":", "tool", ":", "1.0", ":", "sp1">>
CpeToolV2 == <<"cpe", ":", "2.3", ":", "a", ":", "acme", ":", "tool", ":", "2.0", ":", "*">>
CpeToolAny == <<"cpe", ":", "2.3", ":", "a", ":", "acme", ":", "tool", ":", "*", ":", "*">>
CpeKitV1 == <<"cpe", ":", "2.3", ":", "a", ":", "acme", ":", "kit", ":", "1.0">>
CpeKitV2 == <<"cpe", ":", "2.3", ":", "a", ":", "acme", ":", "kit", ":", "2.0">>
CpeShort == <<"cpe", ":", "2.3", ":", "a", ":", "acme", ":", "tool">>

\* The documents a search can return (hit["_source"]): with and without
\* the deprecated key, deprecated, too short to parse, without a cpeName.
HitPool ==
    { [cpeName |-> CpeToolV1, deprecated |-> FALSE],
      [cpeName |-> CpeToolV1Sp1, deprecated |-> FALSE],
      [cpeName |-> CpeToolV2],
      [cpeName |-> CpeToolAny, deprecated |-> FALSE],
      [cpeName |-> CpeKitV1, deprecated |-> FALSE],
      [cpeName |-> CpeKitV2, deprecated |-> TRUE],
      [cpeName |-> CpeShort, deprecated |-> FALSE],
      [deprecated |-> FALSE] }

HitLists == UNION {[1..n -> HitPool] : n \in 0..MaxHits}

\* What _execute_search returns: None after a backend error, else a dict.
NoResult == EmptyDict

IsNone(r) == DOMAIN r = {}

SearchResult(total, hits, description) ==
    [total |-> total, hits |-> hits, query_description |-> description]

\* extract_cpe_components; None is the empty dict here, both are falsy.
ExtractCpeComponents(cpe_name) ==
    LET parts == Split(cpe_name)
    IN  IF Len(parts) >= 6
        THEN [vendor |-> parts[4], product |-> parts[5], version |-> parts[6],
              full_cpe |-> cpe_name]
        ELSE EmptyDict

\* normalize_cpe_for_comparison
NormalizeCpeForComparison_Keep(cpe_name) == cpe_name

NormalizeCpeForComparison_Truncate(cpe_name) ==
    LET parts == Split(cpe_name)
    IN  IF Len(parts) >= 6 THEN Join(SubSeq(parts, 1, 5)) ELSE cpe_name

NormalizeCpeForComparison(cpe_name) ==
    LET parts == Split(cpe_name)
    IN  IF Len(parts) >= 6 THEN Join([parts EXCEPT ![6] = Wildcard]) ELSE cpe_name

\* Line 102: f"{vendor}:{product}"
GroupKey_VendorOnly(components) == components.vendor

GroupKey(components) == components.vendor \o <<Colon>> \o components.product

\* Lines 104-114: the dict groups, kept as the list of its values in
\* insertion order, each value carrying its key.
AddToGroup(groups, components, cpe_hit) ==
    LET group_key == GroupKey(components)
        known == \E i \in DOMAIN groups : groups[i].group_key = group_key
        opened == IF known THEN groups
                  ELSE Append(groups, [group_key |-> group_key,
                                       vendor |-> components.vendor,
                                       product |-> components.product,
                                       versions |-> {},
                                       cpes |-> <<>>,
                                       sample_cpe |-> cpe_hit])
    IN  [i \in DOMAIN opened |->
            IF opened[i].group_key = group_key
            THEN [opened[i] EXCEPT !.versions = @ \cup {components.version},
                                   !.cpes = Append(@, cpe_hit)]
            ELSE opened[i]]

\* Lines 96-114.
RECURSIVE GroupHits(_, _)
GroupHits(active_cpes, groups) ==
    IF active_cpes = <<>> THEN groups
    ELSE LET cpe_hit == Head(active_cpes)
             components == ExtractCpeComponents(Get(cpe_hit, "cpeName", <<>>))
         IN  GroupHits(Tail(active_cpes),
                       IF DOMAIN components # {}
                       THEN AddToGroup(groups, components, cpe_hit)
                       ELSE groups)

\* The version strings of the pool in Python's str order ('*' < '1' < '2').
VersionOrder == <<Wildcard, <<"1.0">>, <<"2.0">> >>

RankOf(version) == CHOOSE i \in DOMAIN VersionOrder : VersionOrder[i] = version

\* sorted(list(versions))
Sorted_Descending(versions) ==
    CHOOSE s \in IterationOrders(versions) :
        \A i, j \in DOMAIN s : i < j => RankOf(s[i]) > RankOf(s[j])

Sorted(versions) ==
    CHOOSE s \in IterationOrders(versions) :
        \A i, j \in DOMAIN s : i < j => RankOf(s[i]) < RankOf(s[j])

\* Lines 118-145, one pass of the loop.
ResultGroup(group_data) ==
    IF Cardinality(group_data.versions) > 1 \/ Wildcard \in group_data.versions
    THEN [normalized_cpe |-> NormalizeCpeForComparison(group_data.sample_cpe.cpeName),
          vendor |-> group_data.vendor,
          product |-> group_data.product,
          version_count |-> Cardinality(group_data.versions),
          versions |-> Sorted(group_data.versions),
          all_cpes |-> [i \in DOMAIN group_data.cpes |-> group_data.cpes[i].cpeName],
          sample_data |-> group_data.sample_cpe]
    ELSE LET cpe_data == group_data.cpes[1]
         IN  [normalized_cpe |-> cpe_data.cpeName,
              vendor |-> group_data.vendor,
              product |-> group_data.product,
              version_count |-> 1,
              versions |-> CHOOSE s \in IterationOrders(group_data.versions) : TRUE,
              all_cpes |-> <<cpe_data.cpeName>>,
              sample_data |-> cpe_data]

\* Line 88.
ActiveCpes_All(hits) == hits

ActiveCpes(hits) == SelectSeq(hits, LAMBDA hit : ~Get(hit, "deprecated", FALSE))

\* group_cpe_variants
GroupCpeVariants(results_in) ==
    IF IsNone(results_in) \/ Get(results_in, "hits", <<>>) = <<>> THEN <<>>
    ELSE LET active_cpes == ActiveCpes(results_in.hits)
             groups == GroupHits(active_cpes, <<>>)
         IN  IF active_cpes = <<>> THEN <<>>
             ELSE [i \in DOMAIN groups |-> ResultGroup(groups[i])]

(***************************************************************************)
(* SpecGroup: group_cpe_variants on every search result of the pool.       *)
(***************************************************************************)
InitGroup ==
    /\ cpe_results \in {NoResult} \cup
                       {SearchResult(Len(hits), hits, "query") : hits \in HitLists}
    /\ result_groups = NoValue
    /\ gv_pc = "call"
    /\ DiffIdle
    /\ UpdateIdle
    /\ MatchIdle
    /\ UrlIdle

GroupVariants ==
    /\ gv_pc = "call"
    /\ result_groups' = GroupCpeVariants(cpe_results)
    /\ gv_pc' = "return"
    /\ UNCHANGED <<cpe_results, diffVars, envVars, updVars, matchVars, urlVars>>

\* The representative identifiers of the groups, as non-deprecated hits.
Representatives(groups) ==
    [i \in DOMAIN groups |-> [cpeName |-> groups[i].normalized_cpe, deprecated |-> FALSE]]

\* group_cpe_variants called again, on the representatives of its own result.
Regroup ==
    /\ gv_pc = "return"
    /\ cpe_results' = SearchResult(Len(result_groups), Representatives(result_groups),
                                   "query")
    /\ result_groups' = GroupCpeVariants(cpe_results')
    /\ gv_pc' = "regrouped"
    /\ UNCHANGED <<diffVars, envVars, updVars, matchVars, urlVars>>

NextGroup == GroupVariants \/ Regroup

SpecGroup == InitGroup /\ [][NextGroup]_vars

(***************************************************************************)
(* src/cpe_search_client.py: the searches the matcher uses.  What the      *)
(* backend answers to a query is not computed: each query draws its        *)
(* response from ResponsePool, an error included.                          *)
(***************************************************************************)
SearchSize == 50

Response(docs) ==
    [ok |-> TRUE, total |-> Len(docs), hits |-> [i \in DOMAIN docs |-> [_source |-> docs[i]]]]

\* es.search: an exception, no hit, a hit for one product, a hit for
\* another product, hits that are deprecated or malformed.
ResponsePool ==
    { [ok |-> FALSE],
      Response(<<>>),
      Response(<<[cpeName |-> CpeToolV1, deprecated |-> FALSE]>>),
      Response(<<[cpeName |-> CpeKitV1, deprecated |-> FALSE]>>),
      Response(<<[cpeName |-> CpeKitV2, deprecated |-> TRUE],
                 [cpeName |-> CpeShort, deprecated |-> FALSE]>>) }

\* _execute_search
ExecuteSearch(response, description) ==
    IF response.ok
    THEN SearchResult(response.total,
                      [i \in DOMAIN response.hits |-> response.hits[i]._source],
                      description)
    ELSE NoResult

\* One entry of the log of queries: what was asked and what came back.
Query(kind, term, size, answer) ==
    [kind |-> kind, term |-> term, size |-> size, answer |-> answer]

\* search_by_tool_name: the value returned and the queries sent.
SearchByToolName_AlwaysFuzzy(tool_name, size, exact_response, fuzzy_response) ==
    LET exact_results == ExecuteSearch(exact_response, "exact tool name")
        fuzzy_results == ExecuteSearch(fuzzy_response, "fuzzy tool name")
    IN  [returned |-> IF ~IsNone(exact_results) /\ Get(exact_results, "total", 0) > 0
                      THEN exact_results ELSE fuzzy_results,
         queries |-> <<Query("exact", tool_name, size, exact_results),
                       Query("fuzzy", tool_name, size, fuzzy_results)>>]

SearchByToolName(tool_name, size, exact_response, fuzzy_response) ==
    LET exact_results == ExecuteSearch(exact_response, "exact tool name")
        fuzzy_results == ExecuteSearch(fuzzy_response, "fuzzy tool name")
    IN  IF ~IsNone(exact_results) /\ Get(exact_results, "total", 0) > 0
        THEN [returned |-> exact_results,
              queries |-> <<Query("exact", tool_name, size, exact_results)>>]
        ELSE [returned |-> IF ~IsNone(fuzzy_results)
                           THEN [fuzzy_results EXCEPT !.query_description =
                                    "fuzzy search for tool name (no exact matches found)"]
                           ELSE fuzzy_results,
              queries |-> <<Query("exact", tool_name, size, exact_results),
                            Query("fuzzy", tool_name, size, fuzzy_results)>>]

\* search_by_website
SearchByWebsite(website, size, response) ==
    LET website_results == ExecuteSearch(response, "website")
    IN  [returned |-> website_results,
         queries |-> <<Query("website", website, size, website_results)>>]

(***************************************************************************)
(* src/csv_cpe_matcher.py: clean_website_url.  A website is a sequence of  *)
(* pieces: a scheme with its "://", "http" when it starts a host name,     *)
(* " ", "/", "?", "#", or a run of other characters.  A scheme piece       *)
(* stands only at the start of a website (after spaces), at most twice.    *)
(***************************************************************************)
Space == " "

Slash == "/"

SchemePieces == {"http://", "https://"}

RECURSIVE LStrip(_, _)
LStrip(s, c) == IF s # <<>> /\ Head(s) = c THEN LStrip(Tail(s), c) ELSE s

RECURSIVE RStrip(_, _)
RStrip(s, c) ==
    IF s # <<>> /\ s[Len(s)] = c THEN RStrip(SubSeq(s, 1, Len(s) - 1), c) ELSE s

\* website.strip()
Strip(s) == RStrip(LStrip(s, Space), Space)

\* re.sub(r'^https?://', '', ...)
RemoveScheme(s) == IF s # <<>> /\ Head(s) \in SchemePieces THEN Tail(s) ELSE s

\* cleaned.startswith('http')
StartsWithHttp(s) == s # <<>> /\ Head(s) \in SchemePieces \cup {"http"}

RECURSIVE TakeUntil(_, _)
TakeUntil(s, stops) ==
    IF s = <<>> \/ Head(s) \in stops THEN <<>>
    ELSE <<Head(s)>> \o TakeUntil(Tail(s), stops)

\* urllib.parse.urlparse: the network location and the path of a URL.
UrlParse(url) ==
    IF url # <<>> /\ Head(url) \in SchemePieces
    THEN LET rest == Tail(url)
             netloc == TakeUntil(rest, {Slash, "?", "#"})
             after == SubSeq(rest, Len(netloc) + 1, Len(rest))
         IN  [netloc |-> netloc, path |-> TakeUntil(after, {"?", "#"})]
    ELSE [netloc |-> <<>>, path |-> TakeUntil(url, {"?", "#"})]

\* clean_website_url
CleanWebsiteUrl(website) ==
    IF website = <<>> THEN <<>>
    ELSE LET cleaned == RemoveScheme(Strip(website))
             parsed == IF ~StartsWithHttp(cleaned) THEN UrlParse(<<"http://">> \o cleaned)
                       ELSE UrlParse(cleaned)
             domain == IF parsed.netloc # <<>> THEN parsed.netloc
                       ELSE TakeUntil(parsed.path, {Slash})
             path == RStrip(parsed.path, Slash)
         IN  IF path # <<>> THEN domain \o path ELSE domain

(***************************************************************************)
(* SpecUrl: clean_website_url on every website of up to MaxPieces pieces,  *)
(* and then on its own result.                                             *)
(***************************************************************************)
MaxPieces == 3

UrlPieces == SchemePieces \cup {"http", "d.org", "acme.com", "x", Slash, "?", "#", Space}

\* The piece sequences that stand for a website: scheme pieces only at the
\* start, after spaces, and at most two of them.
Websites ==
    {w \in UNION {[1..n -> UrlPieces] : n \in 0..MaxPieces} :
        LET body == RemoveScheme(RemoveScheme(LStrip(w, Space)))
        IN  \A i \in DOMAIN body : body[i] \notin SchemePieces}

InitUrl ==
    /\ url_in \in Websites
    /\ cleaned_once = NoValue
    /\ cleaned_twice = NoValue
    /\ url_pc = "call"
    /\ DiffIdle
    /\ UpdateIdle
    /\ GroupIdle
    /\ MatchIdle

CleanUrl ==
    /\ url_pc = "call"
    /\ cleaned_once' = CleanWebsiteUrl(url_in)
    /\ url_pc' = "cleaned"
    /\ UNCHANGED <<url_in, cleaned_twice, diffVars, envVars, updVars, groupVars, matchVars>>

CleanUrlAgain ==
    /\ url_pc = "cleaned"
    /\ cleaned_twice' = CleanWebsiteUrl(cleaned_once)
    /\ url_pc' = "cleaned_again"
    /\ UNCHANGED <<url_in, cleaned_once, diffVars, envVars, updVars, groupVars, matchVars>>

NextUrl == CleanUrl \/ CleanUrlAgain

SpecUrl == InitUrl /\ [][NextUrl]_vars

\* C22: URL normalization is idempotent: cleaning the result of
\* clean_website_url again gives the same result, for every website,
\* including hosts whose name begins with 'http' and websites with
\* trailing slashes, query strings or fragments.
C22_CleanIsIdempotent ==
    url_pc = "cleaned_again" => cleaned_twice = cleaned_once

(***************************************************************************)
(* src/csv_cpe_matcher.py: search_cpe_for_tool and process_csv_file.       *)
(* A tool name cell is a string; a website cell is a sequence of pieces.   *)
(***************************************************************************)
MaxRows == 2

MaxCsvMatches == 5

\* Lines 164-165 and 177-178: result['found_by'] = ...
Tag(groups, found_by) ==
    [i \in DOMAIN groups |-> Merge(groups[i], [found_by |-> found_by])]

\* Lines 170-179: the search by tool name.
NameSearch_WebsiteTag(tool_name, exact_response, fuzzy_response, by_website, sent) ==
    LET name_search == SearchByToolName(tool_name, SearchSize, exact_response, fuzzy_response)
        returned_ == name_search.returned
        found == ~IsNone(returned_) /\ Get(returned_, "hits", <<>>) # <<>>
        by_name == IF found THEN Tag(GroupCpeVariants(returned_), "website") ELSE <<>>
    IN  IF tool_name # ""
        THEN [by_name |-> by_name, by_website |-> by_website,
              combined |-> IF found THEN by_name ELSE <<>>,
              queries |-> sent \o name_search.queries,
              name_results |-> returned_]
        ELSE [by_name |-> <<>>, by_website |-> by_website, combined |-> <<>>,
              queries |-> sent, name_results |-> NoResult]

NameSearch(tool_name, exact_response, fuzzy_response, by_website, sent) ==
    IF tool_name # ""
    THEN LET name_search == SearchByToolName(tool_name, SearchSize, exact_response,
                                             fuzzy_response)
             returned == name_search.returned
             found == ~IsNone(returned) /\ Get(returned, "hits", <<>>) # <<>>
             by_name == IF found THEN Tag(GroupCpeVariants(returned), "name") ELSE <<>>
         IN  [by_name |-> by_name, by_website |-> by_website,
              combined |-> IF found THEN by_name ELSE <<>>,
              queries |-> sent \o name_search.queries,
              name_results |-> returned]
    ELSE [by_name |-> <<>>, by_website |-> by_website, combined |-> <<>>,
          queries |-> sent, name_results |-> NoResult]

\* search_cpe_for_tool: the dict returned, with the queries it sent and
\* the value search_by_tool_name gave it (NoResult when it was not called).
SearchCpeForTool_Merge(tool_name, website, website_response, exact_response, fuzzy_response) ==
    LET site == SearchByWebsite(CleanWebsiteUrl(website), SearchSize, website_response)
        by_website == Tag(GroupCpeVariants(site.returned), "website")
        named == NameSearch(tool_name, exact_response, fuzzy_response, by_website, site.queries)
    IN  [named EXCEPT !.combined = by_website \o named.by_name]

SearchCpeForTool(tool_name, website, website_response, exact_response, fuzzy_response) ==
    IF website # <<>>
    THEN LET site == SearchByWebsite(CleanWebsiteUrl(website), SearchSize, website_response)
             website_results == site.returned
             by_website == IF ~IsNone(website_results)
                              /\ Get(website_results, "hits", <<>>) # <<>>
                           THEN GroupCpeVariants(website_results) ELSE <<>>
         IN  IF by_website # <<>>
             THEN [by_name |-> <<>>,
                   by_website |-> Tag(by_website, "website"),
                   combined |-> Tag(by_website, "website"),
                   queries |-> site.queries,
                   name_results |-> NoResult]
             ELSE NameSearch(tool_name, exact_response, fuzzy_response, by_website,
                             site.queries)
    ELSE NameSearch(tool_name, exact_response, fuzzy_response, <<>>, <<>>)

\* Lines 204-212.
ZeroStats ==
    [total_rows |-> 0, tools_with_cpe |-> 0, tools_without_cpe |-> 0,
     total_cpe_matches |-> 0, matches_by_name |-> 0, matches_by_website |-> 0,
     matches_by_both |-> 0]

FoundBy(combined, found_by) ==
    Cardinality({i \in DOMAIN combined : combined[i].found_by = found_by})

\* Lines 228 and 249-263: the statistics after one more row.
CountRow_MatchedOnly(counts, combined) ==
    IF Len(combined) > 0
    THEN [counts EXCEPT !.total_rows = @ + 1, !.tools_with_cpe = @ + 1,
                        !.total_cpe_matches = @ + Len(combined)]
    ELSE [counts EXCEPT !.total_rows = @ + 1]

CountRow(counts, combined) ==
    IF Len(combined) > 0
    THEN [counts EXCEPT !.total_rows = @ + 1,
                        !.tools_with_cpe = @ + 1,
                        !.total_cpe_matches = @ + Len(combined),
                        !.matches_by_name = @ + FoundBy(combined, "name"),
                        !.matches_by_website = @ + FoundBy(combined, "website"),
                        !.matches_by_both = @ + FoundBy(combined, "both")]
    ELSE [counts EXCEPT !.total_rows = @ + 1, !.tools_without_cpe = @ + 1]

\* '|'.join(match['versions'])
RECURSIVE JoinBar(_)
JoinBar(parts) ==
    IF parts = <<>> THEN <<>>
    ELSE IF Len(parts) = 1 THEN parts[1]
    ELSE parts[1] \o <<"|">> \o JoinBar(Tail(parts))

\* Lines 296-314: the row written for one result, its matches cut or
\* padded to MaxCsvMatches.
OutputRow(result_row) ==
    [original_row |-> result_row.original_row,
     cpe_match_count |-> result_row.match_count,
     matches |-> [i \in 1..MaxCsvMatches |->
                    IF i <= Len(result_row.cpe_matches)
                    THEN LET match == result_row.cpe_matches[i]
                         IN  <<match.normalized_cpe, match.vendor, match.product,
                               JoinBar(match.versions), match.found_by>>
                    ELSE <<<<>>, <<>>, <<>>, <<>>, "">>]]

\* write_results_to_csv, the data rows.
WriteResultsToCsv(rows) == [i \in DOMAIN rows |-> OutputRow(rows[i])]

WebsiteAcme == <<"https://", "acme.com", "/">>

\* Rows of the CSV file: both cells, no website, no tool name, and a row
\* that ends before either column.
RowPool == { <<"tool", WebsiteAcme>>, <<"tool", <<>> >>, <<"", WebsiteAcme>>, <<>> }

\* Line 231-232: row[col] if len(row) > col else "".
Cell(row, col, default) == IF Len(row) > col THEN row[col + 1] ELSE default

\* What get_index_stats can answer; 0 also stands for a backend error.
DocCounts == {0, 3}

(***************************************************************************)
(* SpecMatch: one run of process_csv_file.  The delimiter of the file is   *)
(* taken to be detectable.                                                 *)
(***************************************************************************)
InitMatch ==
    /\ m_pc = "start"
    /\ csv_exists \in BOOLEAN
    /\ csv_rows \in UNION {[1..n -> RowPool] : n \in 0..MaxRows}
    /\ tool_name_col = 0
    /\ website_col = 1
    /\ doc_count = 0
    /\ results = <<>>
    /\ match_stats = NoValue
    /\ queries = <<>>
    /\ name_results = NoResult
    /\ output_file = NoValue
    /\ exception = NoValue
    /\ DiffIdle
    /\ UpdateIdle
    /\ GroupIdle
    /\ UrlIdle

\* Lines 190-212.
StartMatch ==
    /\ m_pc = "start"
    /\ IF ~csv_exists
       THEN /\ m_pc' = "raised"
            /\ exception' = "FileNotFoundError"
            /\ UNCHANGED <<doc_count, match_stats>>
       ELSE \E count \in DocCounts :
              /\ doc_count' = count
              /\ m_pc' = IF count = 0 THEN "raised" ELSE "rows"
              /\ exception' = IF count = 0 THEN "ValueError" ELSE exception
              /\ match_stats' = IF count = 0 THEN match_stats ELSE ZeroStats
    /\ UNCHANGED <<csv_rows, tool_name_col, website_col, results, queries, name_results,
                   csv_exists, output_file>>
    /\ UNCHANGED <<diffVars, envVars, updVars, groupVars, urlVars>>

\* The response that stands for a query that is not sent.
Unasked == [ok |-> FALSE]

\* search_cpe_for_tool sends a query of this kind, given the responses to
\* the queries before it.
Asks(kind, tool_name, website, website_response, exact_response) ==
    LET sent == SearchCpeForTool(tool_name, website, website_response, exact_response,
                                 Unasked).queries
    IN  \E i \in DOMAIN sent : sent[i].kind = kind

\* Lines 227-265, one pass of the loop.  A response is drawn for each
\* query the row sends.
ProcessRow ==
    /\ m_pc = "rows"
    /\ Len(results) < Len(csv_rows)
    /\ LET row_num == Len(results) + 1
           row == csv_rows[row_num]
           tool_name == Cell(row, tool_name_col, "")
           website == Cell(row, website_col, <<>>)
       IN  \E website_response \in ResponsePool, exact_response \in ResponsePool,
              fuzzy_response \in ResponsePool :
              /\ website_response = Unasked
                    \/ Asks("website", tool_name, website, Unasked, Unasked)
              /\ exact_response = Unasked
                    \/ Asks("exact", tool_name, website, website_response, Unasked)
              /\ fuzzy_response = Unasked
                    \/ Asks("fuzzy", tool_name, website, website_response, exact_response)
              /\ LET cpe_matches == SearchCpeForTool(tool_name, website, website_response,
                                                     exact_response, fuzzy_response)
                     result_row == [original_row |-> row,
                                    row_number |-> row_num,
                                    tool_name |-> tool_name,
                                    website |-> website,
                                    cpe_matches |-> cpe_matches.combined,
                                    match_count |-> Len(cpe_matches.combined)]
                 IN  /\ results' = Append(results, result_row)
                     /\ match_stats' = CountRow(match_stats, cpe_matches.combined)
                     /\ queries' = cpe_matches.queries
                     /\ name_results' = cpe_matches.name_results
    /\ UNCHANGED <<m_pc, csv_rows, tool_name_col, website_col, doc_count, csv_exists,
                   output_file, exception>>
    /\ UNCHANGED <<diffVars, envVars, updVars, groupVars, urlVars>>

\* Lines 267-273 with write_results_to_csv and print_statistics, which
\* divides by total_rows.
FinishMatch ==
    /\ m_pc = "rows"
    /\ Len(results) = Len(csv_rows)
    /\ output_file' = WriteResultsToCsv(results)
    /\ m_pc' = IF match_stats.total_rows = 0 THEN "raised" ELSE "done"
    /\ exception' = IF match_stats.total_rows = 0 THEN "ZeroDivisionError" ELSE exception
    /\ UNCHANGED <<csv_rows, tool_name_col, website_col, doc_count, results, match_stats,
                   queries, name_results, csv_exists>>
    /\ UNCHANGED <<diffVars, envVars, updVars, groupVars, urlVars>>

NextMatch == StartMatch \/ ProcessRow \/ FinishMatch

SpecMatch == InitMatch /\ [][NextMatch]_vars

(***************************************************************************)
(* Properties of group_cpe_variants (checked under SpecGroup).             *)
(***************************************************************************)
GroupsReturned == gv_pc = "return"

ColonsOf(name) == {i \in DOMAIN name : name[i] = Colon}

\* The position of the n-th colon of name; 0 stands for the start of name
\* and Len(name) + 1 for its end.
NthColon(name, n) ==
    IF n = 0 THEN 0
    ELSE IF Cardinality(ColonsOf(name)) < n THEN Len(name) + 1
    ELSE CHOOSE i \in ColonsOf(name) :
             Cardinality({j \in ColonsOf(name) : j < i}) = n - 1

\* The n-th colon-separated component of name.
Component(name, n) == SubSeq(name, NthColon(name, n - 1) + 1, NthColon(name, n) - 1)

WellFormed(name) == Cardinality(ColonsOf(name)) >= 5

\* The identifiers of the non-deprecated, well-formed hits of the search
\* result whose vendor and product are those of group g.
BucketNames(g) ==
    LET hits == {cpe_results.hits[i] : i \in DOMAIN cpe_results.hits}
        live == {h \in hits : "deprecated" \notin DOMAIN h \/ ~h.deprecated}
        names == {h.cpeName : h \in {x \in live : "cpeName" \in DOMAIN x}}
    IN  {name \in names : /\ WellFormed(name)
                          /\ Component(name, 4) = g.vendor
                          /\ Component(name, 5) = g.product}

BucketVersions(g) == {Component(name, 6) : name \in BucketNames(g)}

\* C18: group_cpe_variants returns at most one group per (vendor, product)
\* pair, and every identifier recorded in a group (its representative and
\* the members of all_cpes) has the group's vendor as its 4th and the
\* group's product as its 5th colon-separated component.
C18_OneGroupPerVendorProduct ==
    GroupsReturned =>
        /\ \A i, j \in DOMAIN result_groups :
              (/\ result_groups[i].vendor = result_groups[j].vendor
               /\ result_groups[i].product = result_groups[j].product) => i = j
        /\ \A i \in DOMAIN result_groups :
              LET g == result_groups[i]
                  recorded == {g.normalized_cpe} \cup {g.all_cpes[k] : k \in DOMAIN g.all_cpes}
              IN  \A name \in recorded :
                     /\ WellFormed(name)
                     /\ Component(name, 4) = g.vendor
                     /\ Component(name, 5) = g.product

\* Two products of one vendor were grouped, one of them from several hits.
C18_Witness ==
    /\ GroupsReturned
    /\ Len(result_groups) >= 2
    /\ \E i, j \in DOMAIN result_groups :
          /\ result_groups[i].vendor = result_groups[j].vendor
          /\ result_groups[i].product # result_groups[j].product
          /\ Len(result_groups[i].all_cpes) >= 2

\* C19: for every group returned, if its bucket has more than one distinct
\* version or holds the version '*', the representative identifier has '*'
\* as its version component; otherwise the representative is an identifier
\* of the bucket, unchanged, and version_count is 1.
C19_RepresentativeVersion ==
    GroupsReturned =>
        \A i \in DOMAIN result_groups :
            LET g == result_groups[i]
            IN  IF Cardinality(BucketVersions(g)) > 1 \/ Wildcard \in BucketVersions(g)
                THEN /\ Component(g.normalized_cpe, 6) = Wildcard
                     /\ \E name \in BucketNames(g) :
                           \A n \in (1..(Cardinality(ColonsOf(name)) + 1)) \ {6} :
                              Component(g.normalized_cpe, n) = Component(name, n)
                ELSE /\ g.normalized_cpe \in BucketNames(g)
                     /\ g.version_count = 1

\* One group stood for several versions and another for a single one.
C19_Witness ==
    /\ GroupsReturned
    /\ \E i, j \in DOMAIN result_groups :
          /\ Cardinality(BucketVersions(result_groups[i])) > 1
          /\ Wildcard \notin BucketVersions(result_groups[i])
          /\ Component(result_groups[i].normalized_cpe, 6) = Wildcard
          /\ Cardinality(BucketVersions(result_groups[j])) = 1
          /\ Component(result_groups[j].normalized_cpe, 6) # Wildcard

\* C20: for every group returned, all_cpes holds the identifier of every
\* non-deprecated, well-formed hit whose vendor and product are the
\* group's, also when several hits share one version.
C20_AllCpesComplete ==
    GroupsReturned =>
        \A i \in DOMAIN result_groups :
            BucketNames(result_groups[i]) \subseteq
                {result_groups[i].all_cpes[k] : k \in DOMAIN result_groups[i].all_cpes}

\* The hits of the search result handed to group_cpe_variants.
HitsIn == IF IsNone(cpe_results) THEN <<>> ELSE cpe_results.hits

Deprecated(hit) == "deprecated" \in DOMAIN hit /\ hit.deprecated

Malformed(hit) == "cpeName" \notin DOMAIN hit \/ ~WellFormed(hit.cpeName)

\* The (vendor, product, version) of the hits that are not deprecated and
\* whose identifier has at least 6 colon-separated components.
HitTriples ==
    {<<Component(h.cpeName, 4), Component(h.cpeName, 5), Component(h.cpeName, 6)>> :
        h \in {HitsIn[i] : i \in {k \in DOMAIN HitsIn :
                                      ~Deprecated(HitsIn[k]) /\ ~Malformed(HitsIn[k])}}}

\* The (vendor, product, version) recorded in the groups returned.
GroupTriples ==
    UNION {{<<result_groups[i].vendor, result_groups[i].product,
              result_groups[i].versions[k]>> : k \in DOMAIN result_groups[i].versions} :
           i \in DOMAIN result_groups}

\* C21: grouping is idempotent on the group count: grouping the
\* representative identifiers of a result, fed back as non-deprecated hits,
\* yields as many groups as the result had.
C21_RegroupKeepsCount ==
    [][(gv_pc = "return" /\ gv_pc' = "regrouped") =>
           Len(result_groups') = Len(result_groups)]_vars

\* Two representatives, one of them with its version set to '*', were
\* grouped again.
C21_Witness ==
    /\ gv_pc = "regrouped"
    /\ Len(result_groups) >= 2
    /\ \E i \in DOMAIN cpe_results.hits :
          Component(cpe_results.hits[i].cpeName, 6) = Wildcard

\* C24: a hit contributes to a group returned by group_cpe_variants if and
\* only if it is not deprecated and its identifier has at least 6
\* colon-separated components: the vendor, product and version recorded in
\* the groups are exactly those of such hits, whatever deprecated or
\* malformed hits stand beside them.
C24_ContributesIffLiveAndWellFormed ==
    GroupsReturned => GroupTriples = HitTriples

\* A deprecated hit and a malformed hit were skipped and a third hit grouped.
C24_Witness ==
    /\ GroupsReturned
    /\ Len(result_groups) >= 1
    /\ \E i, j \in DOMAIN HitsIn :
          /\ Deprecated(HitsIn[i])
          /\ ~Deprecated(HitsIn[j]) /\ Malformed(HitsIn[j])

\* C25: for every group returned, versions is exactly the set of version
\* components of the bucket's contributing hits, without duplicates and in
\* ascending lexical order, and version_count is the length of versions.
C25_VersionsSortedSet ==
    GroupsReturned =>
        \A i \in DOMAIN result_groups :
            LET g == result_groups[i]
            IN  /\ {g.versions[k] : k \in DOMAIN g.versions} = BucketVersions(g)
                /\ \A j, k \in DOMAIN g.versions :
                      j < k => RankOf(g.versions[j]) < RankOf(g.versions[k])
                /\ g.version_count = Len(g.versions)

\* Hits for acme:tool 2.0 and then 1.0 gave one group with version_count 2
\* and versions ["1.0", "2.0"].
C25_Witness ==
    /\ GroupsReturned
    /\ Len(result_groups) = 1
    /\ result_groups[1].version_count = 2
    /\ result_groups[1].versions = << <<"1.0">>, <<"2.0">> >>
    /\ HitsIn[1].cpeName = CpeToolV2

(***************************************************************************)
(* Properties of search_by_tool_name, search_cpe_for_tool and              *)
(* process_csv_file (checked under SpecMatch).  queries and name_results   *)
(* describe the latest row, results[Len(results)].                         *)
(***************************************************************************)
RowDone == m_pc \in {"rows", "done", "raised"} /\ results # <<>>

LastRow == results[Len(results)]

Sent(kind) == \E i \in DOMAIN queries : queries[i].kind = kind

AnswerTo(kind) == queries[CHOOSE i \in DOMAIN queries : queries[i].kind = kind].answer

HitCount(answer) == IF IsNone(answer) THEN 0 ELSE Len(answer.hits)

\* The identifiers of the non-deprecated, well-formed hits of an answer.
LiveNames(answer) ==
    IF IsNone(answer) THEN {}
    ELSE LET hits == {answer.hits[i] : i \in DOMAIN answer.hits}
             live == {h \in hits : "deprecated" \notin DOMAIN h \/ ~h.deprecated}
             names == {h.cpeName : h \in {x \in live : "cpeName" \in DOMAIN x}}
         IN  {name \in names : WellFormed(name)}

\* The groups are those of the answer: one group for each (vendor, product)
\* of its live identifiers and none besides.
GroupsOf(groups, answer) ==
    /\ \A i \in DOMAIN groups :
          \E name \in LiveNames(answer) : /\ Component(name, 4) = groups[i].vendor
                                          /\ Component(name, 5) = groups[i].product
    /\ \A name \in LiveNames(answer) :
          \E i \in DOMAIN groups : /\ Component(name, 4) = groups[i].vendor
                                   /\ Component(name, 5) = groups[i].product

Provenances(row) == {row.cpe_matches[i].found_by : i \in DOMAIN row.cpe_matches}

\* The website search of the latest row gave no group: it was not made,
\* or its answer holds no live identifier.
NoWebsiteGroup == ~Sent("website") \/ LiveNames(AnswerTo("website")) = {}

\* C14: search_by_tool_name sends the tier-2 (fuzzy) query if and only if
\* the tier-1 (exact) query returned zero hits (an absent answer has none);
\* when tier 1 returned at least one hit, its result is returned as is and
\* no tier-2 query is sent.
C14_FuzzyIffNoExactHit ==
    RowDone =>
        /\ Sent("fuzzy") => Sent("exact")
        /\ Sent("exact") =>
              /\ Sent("fuzzy") <=> HitCount(AnswerTo("exact")) = 0
              /\ HitCount(AnswerTo("exact")) > 0 => name_results = AnswerTo("exact")
              /\ Cardinality({i \in DOMAIN queries : queries[i].kind \in {"exact", "fuzzy"}})
                     = IF Sent("fuzzy") THEN 2 ELSE 1

\* The exact query came back empty and the fuzzy query found hits.
C14_Witness ==
    /\ RowDone
    /\ Sent("exact") /\ ~IsNone(AnswerTo("exact")) /\ HitCount(AnswerTo("exact")) = 0
    /\ Sent("fuzzy") /\ HitCount(name_results) > 0

\* C15: when a website is supplied and the website search yields at least
\* one group, the combined result of the row is exactly those groups, each
\* tagged found_by = 'website', and no name search is sent for the row.
C15_WebsiteGroupsPreempt ==
    RowDone =>
        /\ Sent("website") <=> LastRow.website # <<>>
        /\ (Sent("website") /\ LiveNames(AnswerTo("website")) # {}) =>
              /\ ~Sent("exact") /\ ~Sent("fuzzy")
              /\ LastRow.match_count > 0
              /\ Provenances(LastRow) = {"website"}
              /\ GroupsOf(LastRow.cpe_matches, AnswerTo("website"))

\* A row with a tool name was settled by its website alone.
C15_Witness ==
    /\ RowDone
    /\ LastRow.tool_name # ""
    /\ Sent("website") /\ ~Sent("exact")
    /\ LastRow.match_count > 0
    /\ Provenances(LastRow) = {"website"}

\* C16 as stated: when no website is supplied or the website search
\* produces zero groups, the name search is sent and every resulting group
\* is tagged 'name'; the groups of one row all carry the same provenance.
C16_NameSearchWhenNoWebsiteGroup ==
    RowDone =>
        /\ NoWebsiteGroup =>
              /\ Sent("exact")
              /\ Provenances(LastRow) \subseteq {"name"}
        /\ Cardinality(Provenances(LastRow)) <= 1
        /\ Provenances(LastRow) \subseteq {"website", "name"}

\* C16 amended: when no website is supplied or the website search produces
\* zero groups, the name search is sent if and only if the row has a tool
\* name, and every resulting group is a group of the name search's answer
\* tagged 'name'; the groups of one row all carry the same provenance,
\* 'website' or 'name'.
C16_NameSearchWhenNamed ==
    RowDone =>
        /\ Sent("exact") <=> (NoWebsiteGroup /\ LastRow.tool_name # "")
        /\ NoWebsiteGroup =>
              /\ Provenances(LastRow) \subseteq {"name"}
              /\ GroupsOf(LastRow.cpe_matches,
                          IF Sent("exact") THEN name_results ELSE NoResult)
        /\ Cardinality(Provenances(LastRow)) <= 1
        /\ Provenances(LastRow) \subseteq {"website", "name"}

\* The website search returned hits but no group, and the name search
\* matched.
C16_Witness ==
    /\ RowDone
    /\ Sent("website") /\ HitCount(AnswerTo("website")) > 0
    /\ LiveNames(AnswerTo("website")) = {}
    /\ Sent("exact")
    /\ LastRow.match_count > 0
    /\ Provenances(LastRow) = {"name"}

\* One result row per row read so far, each counted as matched or not.
RowsAccounted ==
    m_pc \in {"rows", "done"} =>
        /\ Len(results) = match_stats.total_rows
        /\ match_stats.tools_with_cpe + match_stats.tools_without_cpe
              = match_stats.total_rows
        /\ match_stats.tools_with_cpe
              = Cardinality({i \in DOMAIN results : results[i].match_count > 0})
        /\ m_pc = "done" => Len(results) = Len(csv_rows)

\* C17 as stated: an absent search result never fails the run; an absent
\* website result falls through to the name search, an absent name result
\* leaves the row unmatched, and the rows are all processed and counted.
C17_AbsentResultIsNoMatch ==
    /\ m_pc = "raised" => results = <<>>
    /\ RowsAccounted
    /\ RowDone =>
          /\ (Sent("website") /\ IsNone(AnswerTo("website"))) => Sent("exact")
          /\ (Sent("exact") /\ IsNone(name_results)) => LastRow.match_count = 0

\* C17 amended: an absent search result never fails the run; an absent
\* website result falls through to the name search, which is sent when the
\* row has a tool name; an absent name result leaves the row unmatched;
\* the rows are all processed and counted.
C17_AbsentResultFallsThrough ==
    /\ m_pc = "raised" => results = <<>>
    /\ RowsAccounted
    /\ RowDone =>
          /\ (Sent("website") /\ IsNone(AnswerTo("website"))) =>
                (Sent("exact") <=> LastRow.tool_name # "")
          /\ (Sent("exact") /\ IsNone(name_results)) => LastRow.match_count = 0
          /\ ~Sent("exact") /\ NoWebsiteGroup => LastRow.match_count = 0

\* Every query of the last of two rows failed; the run still finished.
C17_Witness ==
    /\ m_pc = "done"
    /\ Len(results) = 2
    /\ Sent("website") /\ IsNone(AnswerTo("website"))
    /\ Sent("exact") /\ IsNone(AnswerTo("exact"))
    /\ Sent("fuzzy") /\ IsNone(name_results)
    /\ LastRow.match_count = 0
    /\ match_stats.tools_without_cpe >= 1

=============================================================================
